---------------------------- MODULE Spec2Model ----------------------------
(***************************************************************************)
(* A model of the orchestration layer of imgkit (src/rust/src/lib.rs):     *)
(* the N-API entry points in their blocking (`*_sync`) and non-blocking    *)
(* (`tokio::task::spawn_blocking`) forms, the smart-crop target            *)
(* resolution, the thumbnail pipeline's geometry and the EXIF format gate. *)
(* The codecs, the saliency scorer, the hashers and the EXIF writers are   *)
(* external collaborators: the model records every call made to them in    *)
(* `trace` and draws their outcomes from the request's `img` description.  *)
(***************************************************************************)
EXTENDS Integers, Sequences, FiniteSets, TLC

(***************************************************************************)
(* Binary floating point.  lib.rs computes its geometry in f64 (smart      *)
(* crop, thumbnail) with the operands converted from u32.  A positive      *)
(* float is [z |-> FALSE, e |-> exponent of the leading bit, m |-> the     *)
(* P significand bits, most significant first]; its value is               *)
(* m * 2^(e - (P-1)).  Zero is [z |-> TRUE].  Division and multiplication  *)
(* round to nearest, ties to even, as IEEE 754 does.  All operands of the  *)
(* model stay below 2^30, so no intermediate value leaves TLC's integers   *)
(* and no conversion to u32 saturates.                                     *)
(***************************************************************************)
F64Bits == 53

\* Quotient digits and products are worked in digits of DigitBits bits.
DigitBits == 8

FZero == [z |-> TRUE, e |-> 0, m |-> <<>>]

\* The k-bit binary numeral of n, most significant bit first.
Pad(n, k) == [i \in 1..k |-> (n \div (2 ^ (k - i))) % 2]

\* The number of bits of n (0 for n = 0), n < 2^30.
BitLen(n) == CHOOSE k \in 0..30 : n < 2 ^ k /\ (k = 0 \/ n >= 2 ^ (k - 1))

IntBits(n) == Pad(n, BitLen(n))

RECURSIVE BitsVal(_)
BitsVal(s) ==
  IF s = <<>> THEN 0
  ELSE 2 * BitsVal(SubSeq(s, 1, Len(s) - 1)) + s[Len(s)]

\* s + 1 on a bit string; one bit longer when s is all ones.
BitsInc(s) ==
  IF \A i \in 1..Len(s) : s[i] = 1
  THEN <<1>> \o [i \in 1..Len(s) |-> 0]
  ELSE LET j == CHOOSE j \in 1..Len(s) :
                  s[j] = 0 /\ \A i \in (j + 1)..Len(s) : s[i] = 1
       IN  [i \in 1..Len(s) |-> IF i < j THEN s[i] ELSE IF i = j THEN 1 ELSE 0]

\* The next n quotient digits of r / b (0 <= r < b) as bits, and the remainder.
RECURSIVE DivBits(_, _, _)
DivBits(r, b, n) ==
  IF n = 0 THEN [bits |-> <<>>, rem |-> r]
  ELSE LET t    == r * (2 ^ DigitBits)
           rest == DivBits(t % b, b, n - 1)
       IN  [bits |-> Pad(t \div b, DigitBits) \o rest.bits, rem |-> rest.rem]

\* The zero bits that follow the binary point of a / b (0 < a < b).
LeadZeros(a, b) == CHOOSE k \in 0..30 : a * (2 ^ (k + 1)) >= b

\* Drop the leading zero bits of a bit string.
StripZeros(s) ==
  IF \A i \in 1..Len(s) : s[i] = 0 THEN <<>>
  ELSE LET j == CHOOSE j \in 1..Len(s) : s[j] = 1 /\ \A i \in 1..(j - 1) : s[i] = 0
       IN  SubSeq(s, j, Len(s))

\* s * c, digit by digit from the least significant digit, for a bit string s
\* of n whole digits and an integer c >= 1.
RECURSIVE DigitsMul(_, _, _, _)
DigitsMul(s, n, c, carry) ==
  IF n = 0 THEN [bits |-> <<>>, carry |-> carry]
  ELSE LET d    == BitsVal(SubSeq(s, (n - 1) * DigitBits + 1, n * DigitBits))
           t    == d * c + carry
           rest == DigitsMul(s, n - 1, c, t \div (2 ^ DigitBits))
       IN  [bits  |-> rest.bits \o Pad(t % (2 ^ DigitBits), DigitBits),
            carry |-> rest.carry]

BitsMul(s, c) ==
  LET n   == (Len(s) + DigitBits - 1) \div DigitBits
      pad == [i \in 1..(n * DigitBits - Len(s)) |-> 0] \o s
      r   == DigitsMul(pad, n, c, 0)
  IN  StripZeros(IntBits(r.carry) \o r.bits)

\* Round a bit string with a sticky flag to P bits, to nearest, ties to even.
FRound(bits, sticky, e, P) ==
  LET keep == SubSeq(bits, 1, P)
      rest == \E i \in (P + 2)..Len(bits) : bits[i] = 1
      up   == bits[P + 1] = 1 /\ (sticky \/ rest \/ keep[P] = 1)
      inc  == BitsInc(keep)
  IN  IF ~up THEN [z |-> FALSE, e |-> e, m |-> keep]
      ELSE IF Len(inc) > P THEN [z |-> FALSE, e |-> e + 1, m |-> SubSeq(inc, 1, P)]
      ELSE [z |-> FALSE, e |-> e, m |-> inc]

\* (a as f64) / (b as f64) for integers a >= 0, b >= 1.
FDiv(a, b, P) ==
  IF a = 0 THEN FZero
  ELSE IF a \div b >= 1
  THEN LET ib == IntBits(a \div b)
           fr == DivBits(a % b, b, (P + DigitBits) \div DigitBits)
       IN  FRound(ib \o fr.bits, fr.rem # 0, Len(ib) - 1, P)
  ELSE LET k  == LeadZeros(a, b)
           fr == DivBits(a * (2 ^ k), b, (P + 1 + DigitBits) \div DigitBits)
       IN  FRound(fr.bits, fr.rem # 0, -(k + 1), P)

\* (c as f64) * x for an integer c >= 0 and a float x.
FMulInt(c, x, P) ==
  IF c = 0 \/ x.z THEN FZero
  ELSE LET prod == BitsMul(x.m, c)
           g    == Len(prod) - P
       IN  IF g = 0 THEN [z |-> FALSE, e |-> x.e, m |-> prod]
           ELSE FRound(prod, FALSE, x.e + g, P)

\* x <= y on non-negative floats.
BitsLeq(s, t) ==
  \/ s = t
  \/ LET i == CHOOSE i \in 1..Len(s) :
                s[i] # t[i] /\ \A j \in 1..(i - 1) : s[j] = t[j]
     IN  s[i] < t[i]

FLeq(x, y) ==
  IF x.z THEN TRUE
  ELSE IF y.z THEN FALSE
  ELSE IF x.e # y.e THEN x.e < y.e
  ELSE BitsLeq(x.m, y.m)

\* f64::min
FMin(x, y) == IF FLeq(x, y) THEN x ELSE y

\* `x as u32` for a non-negative float: truncation toward zero.
FTrunc(x) ==
  IF x.z \/ x.e < 0 THEN 0 ELSE BitsVal(SubSeq(x.m, 1, x.e + 1))

\* `x.round() as u32`: to the nearest integer, halves away from zero.
FRoundHalfAway(x) ==
  IF x.z \/ x.e < -1 THEN 0
  ELSE IF x.e = -1 THEN 1
  ELSE FTrunc(x) + (IF x.e + 2 <= Len(x.m) THEN x.m[x.e + 2] ELSE 0)

(***************************************************************************)
(* Values shared by the entry points.                                      *)
(***************************************************************************)
\* Option<T>
None == [some |-> FALSE, v |-> 0]
Some(x) == [some |-> TRUE, v |-> x]
unwrap_or(o, d) == IF o.some THEN o.v ELSE d

Min(a, b) == IF a <= b THEN a ELSE b
Max(a, b) == IF a >= b THEN a ELSE b

\* Result<T>: a value, or an error that carries its taxonomy tag and the
\* step that raised it.
Ok(v) == [ok |-> TRUE, v |-> v, tag |-> "", at |-> ""]
Err(tag, at) == [ok |-> FALSE, v |-> 0, tag |-> tag, at |-> at]

\* Error::from_reason(msg): a bare N-API error (status GenericFailure); no
\* ImageError variant is attached to it.
from_reason(at) == Err("GenericFailure", at)

\* Error::from_reason(format!("Task error: {}", e)) on a JoinError.
task_error == Err("TaskError", "join")

\* `.map_err(|e| e.into())` / `?`: ImageError -> napi::Error.  error.rs is not
\* part of the sources at hand; the conversion keeps the variant as the tag.
into_napi(r) == IF r.ok THEN r ELSE Err(r.tag, r.at)

\* Failures of the collaborators, as ImageError values.  decode.rs, encode.rs
\* and resize.rs are not among the sources at hand: an unreadable header or
\* payload is a DecodeError, any other collaborator failure is wrapped as a
\* ProcessingError.
decode_error == Err("DecodeError", "decode")
encode_error == Err("ProcessingError", "encode")
resize_error == Err("ProcessingError", "resize")

\* One call made to an external collaborator; w, h are the target
\* dimensions handed over (None where the call takes none), opts what else
\* the call was given.
NoOpts == [filter |-> None, fit |-> None, background |-> None,
           quality |-> None, lossless |-> None]

CallWith(fn, w, h, opts) == [fn |-> fn, w |-> w, h |-> h, opts |-> opts]

Call(fn, w, h) == CallWith(fn, w, h, NoOpts)

\* What a handler did: its result and the collaborator calls it made.
Done(res, calls) == [res |-> res, calls |-> calls]

(***************************************************************************)
(* parse_aspect_ratio.  A string is a sequence of one-character strings.   *)
(***************************************************************************)
Digits == {"0", "1", "2", "3", "4", "5", "6", "7", "8", "9"}

DigitVal(c) ==
  CASE c = "0" -> 0 [] c = "1" -> 1 [] c = "2" -> 2 [] c = "3" -> 3
    [] c = "4" -> 4 [] c = "5" -> 5 [] c = "6" -> 6 [] c = "7" -> 7
    [] c = "8" -> 8 [] c = "9" -> 9

\* str::split(':')
RECURSIVE split(_)
split(s) ==
  IF \A i \in 1..Len(s) : s[i] # ":" THEN <<s>>
  ELSE LET i == CHOOSE i \in 1..Len(s) :
                  s[i] = ":" /\ \A j \in 1..(i - 1) : s[j] # ":"
       IN  <<SubSeq(s, 1, i - 1)>> \o split(SubSeq(s, i + 1, Len(s)))

\* str::trim
RECURSIVE trim(_)
trim(s) ==
  IF s = <<>> THEN s
  ELSE IF s[1] = " " THEN trim(SubSeq(s, 2, Len(s)))
  ELSE IF s[Len(s)] = " " THEN trim(SubSeq(s, 1, Len(s) - 1))
  ELSE s

RECURSIVE DecimalVal(_)
DecimalVal(s) ==
  IF s = <<>> THEN 0
  ELSE 10 * DecimalVal(SubSeq(s, 1, Len(s) - 1)) + DigitVal(s[Len(s)])

\* str::parse::<u32>: an optional '+', then one or more decimal digits.  The
\* numerals of the model are short, so the overflow error of a numeral
\* above u32::MAX is not reached.
parse_u32(s) ==
  LET d == IF s # <<>> /\ s[1] = "+" THEN SubSeq(s, 2, Len(s)) ELSE s
  IN  IF d = <<>> \/ \E i \in 1..Len(d) : d[i] \notin Digits
      THEN [ok |-> FALSE, v |-> 0]
      ELSE [ok |-> TRUE, v |-> DecimalVal(d)]

parse_aspect_ratio(ratio) ==
  LET parts == split(ratio)
  IN  IF Len(parts) # 2 THEN [ok |-> FALSE, w |-> 0, h |-> 0]
      ELSE LET w == parse_u32(trim(parts[1]))
               h == parse_u32(trim(parts[2]))
           IN  IF ~w.ok \/ ~h.ok THEN [ok |-> FALSE, w |-> 0, h |-> 0]
               ELSE IF w.v = 0 \/ h.v = 0 THEN [ok |-> FALSE, w |-> 0, h |-> 0]
               ELSE [ok |-> TRUE, w |-> w.v, h |-> h.v]

(***************************************************************************)
(* Smart crop.  The four entry points repeat the same target resolution    *)
(* (lib.rs 524-540, 572-585, 619-632, 667-680); they differ in how a       *)
(* failure is wrapped.                                                     *)
(***************************************************************************)
\* ratio_target with the larger of the two scales.
ratio_target_max(img_w, img_h, ratio_w, ratio_h) ==
  LET scale_w == FDiv(img_w, ratio_w, F64Bits)
      scale_h == FDiv(img_h, ratio_h, F64Bits)
      scale   == IF FLeq(scale_w, scale_h) THEN scale_h ELSE scale_w
  IN  [w |-> FTrunc(FMulInt(ratio_w, scale, F64Bits)),
       h |-> FTrunc(FMulInt(ratio_h, scale, F64Bits))]

\* The largest window of ratio_w : ratio_h inside img_w x img_h.
ratio_target(img_w, img_h, ratio_w, ratio_h) ==
  LET scale_w == FDiv(img_w, ratio_w, F64Bits)
      scale_h == FDiv(img_h, ratio_h, F64Bits)
      scale   == FMin(scale_w, scale_h)
  IN  [w |-> FTrunc(FMulInt(ratio_w, scale, F64Bits)),
       h |-> FTrunc(FMulInt(ratio_h, scale, F64Bits))]

\* smart_crop_target letting an explicit width or height override the ratio.
smart_crop_target_prefers_size(img_w, img_h, options) ==
  IF options.aspect_ratio.some /\ ~options.width.some /\ ~options.height.some
  THEN LET r == parse_aspect_ratio(options.aspect_ratio.v)
       IN  IF ~r.ok THEN [ok |-> FALSE, w |-> 0, h |-> 0]
           ELSE LET t == ratio_target(img_w, img_h, r.w, r.h)
                IN  [ok |-> TRUE, w |-> t.w, h |-> t.h]
  ELSE LET w == unwrap_or(options.width, img_w)
           h == unwrap_or(options.height, img_h)
       IN  [ok |-> TRUE, w |-> Min(w, img_w), h |-> Min(h, img_h)]

\* "Determine target dimensions": [ok, w, h], not ok when the ratio string
\* does not parse.
smart_crop_target(img_w, img_h, options) ==
  IF options.aspect_ratio.some
  THEN LET r == parse_aspect_ratio(options.aspect_ratio.v)
       IN  IF ~r.ok THEN [ok |-> FALSE, w |-> 0, h |-> 0]
           ELSE LET t == ratio_target(img_w, img_h, r.w, r.h)
                IN  [ok |-> TRUE, w |-> t.w, h |-> t.h]
  ELSE LET w == unwrap_or(options.width, img_w)
           h == unwrap_or(options.height, img_h)
       IN  [ok |-> TRUE, w |-> Min(w, img_w), h |-> Min(h, img_h)]

\* NonZeroU32::new on both sides of the resolved target t, then
\* find_best_crop.  `wrap` is the tag the entry point gives its own failures.
smart_crop_search(in, wrap, t) ==
  LET c1 == <<Call("decode_image", None, None)>>
      c2 == <<Call("decode_image", None, None),
              Call("find_best_crop", Some(t.w), Some(t.h))>>
  IN  IF ~t.ok THEN Done(Err(wrap, "aspect_ratio"), c1)
      ELSE IF t.w = 0 THEN Done(Err(wrap, "target_width"), c1)
      ELSE IF t.h = 0 THEN Done(Err(wrap, "target_height"), c1)
      ELSE IF ~in.img.finder_ok THEN Done(Err(wrap, "find_best_crop"), c2)
      ELSE Done(Ok(in.img.crop), c2)

\* decode_image, then the target resolution and the search.
smart_crop_find(in, wrap) ==
  IF ~in.img.decodable
  THEN Done(decode_error, <<Call("decode_image", None, None)>>)
  ELSE smart_crop_search(in, wrap,
                         smart_crop_target(in.img.w, in.img.h, in.options))

smart_crop_analyze_sync(in) == smart_crop_find(in, "GenericFailure")

smart_crop_analyze_task(in) == smart_crop_find(in, "ProcessingError")

\* crop_imm on the finder's rectangle, then encode_png.
smart_crop_apply(in, found) ==
  IF ~found.res.ok THEN found
  ELSE LET c == found.calls
                  \o <<Call("crop_imm", Some(found.res.v.width), Some(found.res.v.height)),
                       Call("encode_png", None, None)>>
       IN  IF ~in.img.encode_ok THEN Done(encode_error, c)
           ELSE Done(Ok([format |-> "png", width |-> found.res.v.width,
                         height |-> found.res.v.height]), c)

smart_crop_sync(in) == smart_crop_apply(in, smart_crop_find(in, "GenericFailure"))

smart_crop_task(in) == smart_crop_apply(in, smart_crop_find(in, "ProcessingError"))

(***************************************************************************)
(* The thumbnail pipeline: generate_thumbnail_internal.                    *)
(***************************************************************************)
F085 == FDiv(85, 100, F64Bits)   \* the literal 0.85
F115 == FDiv(115, 100, F64Bits)  \* the literal 1.15

\* "Calculate target dimensions maintaining aspect ratio"
thumbnail_target(options, original_width, original_height) ==
  IF options.height.some THEN [w |-> options.width, h |-> options.height.v]
  ELSE LET ratio == FDiv(options.width, original_width, F64Bits)
           h     == FRoundHalfAway(FMulInt(original_height, ratio, F64Bits))
       IN  [w |-> options.width, h |-> Max(h, 1)]

\* The dimensions the shrink-on-load decoder returns for a requested target:
\* the target itself, the full-size image, or a size off the target by the
\* percentages the buffer's description gives.  decode.rs is not among the
\* sources at hand; a target with a zero side cannot be met and yields the
\* full-size image.
decoded_dims(img, tw, th) ==
  IF tw = 0 \/ th = 0 \/ img.dec.full THEN [w |-> img.w, h |-> img.h]
  ELSE [w |-> Max(1, (tw * img.dec.pw) \div 100),
        h |-> Max(1, (th * img.dec.ph) \div 100)]

\* "FAST MODE: Skip resize if within 15% tolerance"; a zero target makes the
\* ratio infinite, which no comparison accepts.
within_tolerance(decoded, target) ==
  /\ target # 0
  /\ FLeq(F085, FDiv(decoded, target, F64Bits))
  /\ FLeq(FDiv(decoded, target, F64Bits), F115)

\* skip_resize deciding on the widths alone.
skip_resize_width_only(fast_mode, decoded, target) ==
  IF fast_mode
  THEN within_tolerance(decoded.w, target.w)
  ELSE decoded.w = target.w

skip_resize(fast_mode, decoded, target) ==
  IF fast_mode
  THEN within_tolerance(decoded.w, target.w) /\ within_tolerance(decoded.h, target.h)
  ELSE decoded.w = target.w /\ decoded.h = target.h

\* thumbnail_resize_opts where fast mode only supplies a filter the caller
\* left unset.
thumbnail_resize_opts_keeps_filter(options, fast_mode) ==
  [NoOpts EXCEPT !.filter = IF fast_mode /\ ~options.filter.some THEN Some("Nearest")
                            ELSE options.filter,
                 !.fit = Some("Fill")]

\* "Determine resize filter" and the ResizeOptions built from it.
thumbnail_resize_opts(options, fast_mode) ==
  [NoOpts EXCEPT !.filter = IF fast_mode THEN Some("Nearest") ELSE options.filter,
                 !.fit = Some("Fill")]

\* thumbnail_format letting a recognised input format win over options.format.
thumbnail_format_input_first(options, input_format) ==
  IF input_format \in {"jpeg", "jpg"} THEN "jpeg"
  ELSE IF input_format = "webp" THEN "webp"
  ELSE IF input_format = "png" THEN "png"
  ELSE IF options.format.some
  THEN CASE options.format.v = "Jpeg" -> "jpeg"
         [] options.format.v = "Png" -> "png"
         [] options.format.v = "Webp" -> "webp"
  ELSE "jpeg"

\* "Determine output format"
thumbnail_format(options, input_format) ==
  IF options.format.some
  THEN CASE options.format.v = "Jpeg" -> "jpeg"
         [] options.format.v = "Png" -> "png"
         [] options.format.v = "Webp" -> "webp"
  ELSE IF input_format \in {"jpeg", "jpg"} THEN "jpeg"
  ELSE IF input_format = "webp" THEN "webp"
  ELSE IF input_format = "png" THEN "png"
  ELSE "jpeg"

\* "Encode output": the encoder call for the resolved format.
thumbnail_encode_call(options, fast_mode, output_format) ==
  LET quality == unwrap_or(options.quality, IF fast_mode THEN 70 ELSE 80)
  IN  CASE output_format = "jpeg" ->
             CallWith("encode_jpeg", None, None, [NoOpts EXCEPT !.quality = Some(quality)])
        [] output_format = "webp" ->
             CallWith("encode_webp", None, None,
                      [NoOpts EXCEPT !.quality = Some(quality), !.lossless = Some(FALSE)])
        [] output_format = "png" -> Call("encode_png", None, None)
        [] OTHER ->
             CallWith("encode_jpeg", None, None, [NoOpts EXCEPT !.quality = Some(quality)])

\* The dimensions resize_image returns for a Fill request (resize.rs is not
\* among the sources at hand: the target, unless the buffer's description
\* says the resizer is off by one).
resized_dims(img, target) ==
  IF img.resize_exact THEN target ELSE [w |-> target.w + 1, h |-> target.h]

\* thumbnail_encode reporting shrink-on-load as used whenever it was
\* requested.
thumbnail_encode_flags_request(in, calls, target, decoded, final, use_shrink, fast_mode) ==
  LET output_format == thumbnail_format(in.options, in.img.format)
      c == Append(calls, thumbnail_encode_call(in.options, fast_mode, output_format))
  IN  IF ~in.img.encode_ok THEN Done(encode_error, c)
      ELSE Done(Ok([data |-> [format |-> output_format, width |-> final.w,
                              height |-> final.h],
                    width |-> final.w,
                    height |-> final.h,
                    format |-> output_format,
                    shrink_on_load_used |-> use_shrink,
                    original_width |-> in.img.w,
                    original_height |-> in.img.h]), c)

\* From the encode step on: `final` is the raster that is encoded.
thumbnail_encode(in, calls, target, decoded, final, use_shrink, fast_mode) ==
  LET output_format == thumbnail_format(in.options, in.img.format)
      c == Append(calls, thumbnail_encode_call(in.options, fast_mode, output_format))
  IN  IF ~in.img.encode_ok THEN Done(encode_error, c)
      ELSE Done(Ok([data |-> [format |-> output_format, width |-> final.w,
                              height |-> final.h],
                    width |-> final.w,
                    height |-> final.h,
                    format |-> output_format,
                    shrink_on_load_used |->
                      use_shrink /\ (decoded.w < in.img.w \/ decoded.h < in.img.h),
                    original_width |-> in.img.w,
                    original_height |-> in.img.h]), c)

\* thumbnail_resize reporting the target's dimensions when the resize is
\* skipped.
thumbnail_resize_reports_target(in, calls, target, decoded, use_shrink, fast_mode) ==
  IF skip_resize(fast_mode, decoded, target)
  THEN thumbnail_encode(in, calls, target, decoded, target, use_shrink, fast_mode)
  ELSE LET c == Append(calls, CallWith("resize_image", Some(target.w), Some(target.h),
                                       thumbnail_resize_opts(in.options, fast_mode)))
       IN  IF ~in.img.resize_ok THEN Done(resize_error, c)
           ELSE thumbnail_encode(in, c, target, decoded,
                                 resized_dims(in.img, target), use_shrink, fast_mode)

\* thumbnail_resize going on to the encoder with the decoded raster when the
\* resizer fails.
thumbnail_resize_no_stop(in, calls, target, decoded, use_shrink, fast_mode) ==
  IF skip_resize(fast_mode, decoded, target)
  THEN thumbnail_encode(in, calls, target, decoded, decoded, use_shrink, fast_mode)
  ELSE LET c == Append(calls, CallWith("resize_image", Some(target.w), Some(target.h),
                                       thumbnail_resize_opts(in.options, fast_mode)))
       IN  thumbnail_encode(in, c, target, decoded,
                            IF in.img.resize_ok THEN resized_dims(in.img, target)
                            ELSE decoded,
                            use_shrink, fast_mode)

\* From the resize decision on: `decoded` is the raster the decoder returned.
thumbnail_resize(in, calls, target, decoded, use_shrink, fast_mode) ==
  IF skip_resize(fast_mode, decoded, target)
  THEN thumbnail_encode(in, calls, target, decoded, decoded, use_shrink, fast_mode)
  ELSE LET c == Append(calls, CallWith("resize_image", Some(target.w), Some(target.h),
                                       thumbnail_resize_opts(in.options, fast_mode)))
       IN  IF ~in.img.resize_ok THEN Done(resize_error, c)
           ELSE thumbnail_encode(in, c, target, decoded,
                                 resized_dims(in.img, target), use_shrink, fast_mode)

\* From the decode on: `target` is the resolved target.
thumbnail_decode(in, target, use_shrink, fast_mode) ==
  LET c == <<Call("get_metadata", None, None),
             IF use_shrink
             THEN Call("decode_image_with_target_fast", Some(target.w), Some(target.h))
             ELSE Call("decode_image", None, None)>>
  IN  IF ~in.img.decode_ok THEN Done(decode_error, c)
      ELSE thumbnail_resize(in, c, target,
                            IF use_shrink THEN decoded_dims(in.img, target.w, target.h)
                            ELSE [w |-> in.img.w, h |-> in.img.h],
                            use_shrink, fast_mode)

generate_thumbnail_internal(in) ==
  IF ~in.img.decodable
  THEN Done(decode_error, <<Call("get_metadata", None, None)>>)
  ELSE thumbnail_decode(in, thumbnail_target(in.options, in.img.w, in.img.h),
                        unwrap_or(in.options.shrink_on_load, TRUE),
                        unwrap_or(in.options.fast_mode, FALSE))

\* thumbnail_buffer*: the encoded bytes only.
data_only(d) == IF d.res.ok THEN Done(Ok(d.res.v.data), d.calls) ELSE d

thumbnail_sync(in) == generate_thumbnail_internal(in)
thumbnail_task(in) == generate_thumbnail_internal(in)
thumbnail_buffer_sync(in) == data_only(generate_thumbnail_internal(in))
thumbnail_buffer_task(in) == data_only(generate_thumbnail_internal(in))

(***************************************************************************)
(* metadata, resize, thumbhash, imageHashDistance, writeExif, stripExif.   *)
(***************************************************************************)
metadata_sync(in) ==
  LET c == <<Call("get_metadata", None, None)>>
  IN  IF ~in.img.decodable THEN Done(decode_error, c)
      ELSE Done(Ok([width |-> in.img.w, height |-> in.img.h,
                    format |-> in.img.format, has_alpha |-> in.img.has_alpha]), c)

metadata_task(in) == metadata_sync(in)

\* resize_sync and the closure of resize are the same three calls.
resize_sync(in) ==
  LET c1 == <<Call("decode_image_with_target", in.options.width, in.options.height)>>
      c2 == Append(c1, CallWith("resize_image", in.options.width, in.options.height,
                                [NoOpts EXCEPT !.filter = in.options.filter,
                                               !.fit = in.options.fit,
                                               !.background = in.options.background]))
      c3 == Append(c2, Call("encode_png", None, None))
  IN  IF ~in.img.decodable \/ ~in.img.decode_ok THEN Done(decode_error, c1)
      ELSE IF ~in.img.resize_ok THEN Done(resize_error, c2)
      ELSE IF ~in.img.encode_ok THEN Done(encode_error, c3)
      ELSE Done(Ok([format |-> "png"]), c3)

resize_task(in) == resize_sync(in)

F32Bits == 24

\* "Calculate target size for ThumbHash (max 100x100, preserve aspect ratio)"
thumbhash_target(orig_w, orig_h) ==
  IF orig_w > 100 \/ orig_h > 100
  THEN LET scale == FDiv(100, Max(orig_w, orig_h), F32Bits)
       IN  [w |-> Max(FRoundHalfAway(FMulInt(orig_w, scale, F32Bits)), 1),
            h |-> Max(FRoundHalfAway(FMulInt(orig_h, scale, F32Bits)), 1)]
  ELSE [w |-> orig_w, h |-> orig_h]

\* thumbhash_decode reporting the dimensions of the decoded raster.
thumbhash_decode_reports_decoded(in, target) ==
  LET c1 == <<Call("get_metadata", None, None),
              Call("decode_image_with_target", Some(target.w), Some(target.h))>>
      actual == decoded_dims(in.img, target.w, target.h)
  IN  IF ~in.img.decode_ok THEN Done(decode_error, c1)
      ELSE Done(Ok([hash |-> [w |-> actual.w, h |-> actual.h],
                    width |-> actual.w, height |-> actual.h,
                    has_alpha |-> in.img.has_alpha]),
                Append(c1, Call("rgba_to_thumb_hash", Some(actual.w), Some(actual.h))))

thumbhash_decode(in, target) ==
  LET c1 == <<Call("get_metadata", None, None),
              Call("decode_image_with_target", Some(target.w), Some(target.h))>>
      actual == decoded_dims(in.img, target.w, target.h)
  IN  IF ~in.img.decode_ok THEN Done(decode_error, c1)
      ELSE Done(Ok([hash |-> [w |-> actual.w, h |-> actual.h],
                    width |-> in.img.w, height |-> in.img.h,
                    has_alpha |-> in.img.has_alpha]),
                Append(c1, Call("rgba_to_thumb_hash", Some(actual.w), Some(actual.h))))

thumbhash_sync(in) ==
  IF ~in.img.decodable
  THEN Done(decode_error, <<Call("get_metadata", None, None)>>)
  ELSE thumbhash_decode(in, thumbhash_target(in.img.w, in.img.h))

thumbhash_task(in) == thumbhash_sync(in)

\* ImageHash::dist: the Hamming distance of two decoded hashes.
RECURSIVE dist(_, _)
dist(a, b) ==
  IF a = <<>> \/ b = <<>> THEN 0
  ELSE (IF a[1] # b[1] THEN 1 ELSE 0) + dist(Tail(a), Tail(b))

\* from_base64 on hash1, then on hash2, then dist.
hash_distance(in, wrap) ==
  IF ~in.hash1.valid THEN Done(Err(wrap, "hash1"), <<Call("from_base64", None, None)>>)
  ELSE IF ~in.hash2.valid
  THEN Done(Err(wrap, "hash2"),
            <<Call("from_base64", None, None), Call("from_base64", None, None)>>)
  ELSE Done(Ok(dist(in.hash1.bits, in.hash2.bits)),
            <<Call("from_base64", None, None), Call("from_base64", None, None)>>)

image_hash_distance_sync(in) == hash_distance(in, "GenericFailure")

image_hash_distance_task(in) == hash_distance(in, "ProcessingError")

\* detect_format, then the writer of the detected format; `unsupported` is
\* the error the entry point returns for any other format.
exif_dispatch(in, jpeg_fn, webp_fn, unsupported) ==
  LET c == <<Call("detect_format", None, None)>>
  IN  IF ~in.img.decodable THEN Done(decode_error, c)
      ELSE IF in.img.format \in {"jpeg", "webp"}
      THEN LET c2 == Append(c, Call(IF in.img.format = "jpeg" THEN jpeg_fn ELSE webp_fn,
                                    None, None))
           IN  IF ~in.img.exif_ok THEN Done(Err("ProcessingError", "exif"), c2)
               ELSE Done(Ok([format |-> in.img.format]), c2)
      ELSE Done(unsupported, c)

write_exif_sync(in) ==
  exif_dispatch(in, "write_jpeg_exif", "write_webp_exif", from_reason("format"))

write_exif_task(in) ==
  exif_dispatch(in, "write_jpeg_exif", "write_webp_exif",
                Err("UnsupportedFormat", "format"))

strip_exif_sync(in) ==
  exif_dispatch(in, "strip_jpeg_exif", "strip_webp_exif", from_reason("format"))

strip_exif_task(in) ==
  exif_dispatch(in, "strip_jpeg_exif", "strip_webp_exif",
                Err("UnsupportedFormat", "format"))

(***************************************************************************)
(* dominantColors.  A byte is a number in 0..255; a string is a sequence   *)
(* of one-character strings.                                               *)
(***************************************************************************)
\* {:02X}: a byte as two upper-case hexadecimal digits.
HexDigits == <<"0", "1", "2", "3", "4", "5", "6", "7", "8", "9",
               "A", "B", "C", "D", "E", "F">>

hex2(byte) == <<HexDigits[(byte \div 16) + 1], HexDigits[(byte % 16) + 1]>>

\* format!("#{:02X}{:02X}{:02X}", r, g, b)
rgb_to_hex(r, g, b) == <<"#">> \o hex2(r) \o hex2(g) \o hex2(b)

DominantColor(r, g, b, hex) == [r |-> r, g |-> g, b |-> b, hex |-> hex]

\* The fallback entry; its hex is the literal "#000000".
black == DominantColor(0, 0, 0, <<"#", "0", "0", "0", "0", "0", "0">>)

\* The conversion loop entered late: it stops one entry after max_colors.
RECURSIVE color_loop_one_more(_, _, _, _)
color_loop_one_more(color_bytes, max_colors, i, colors) ==
  IF i >= Len(color_bytes) THEN colors
  ELSE IF Len(colors) > max_colors THEN colors
  ELSE IF i + 2 < Len(color_bytes)
  THEN color_loop_one_more(color_bytes, max_colors, i + 3,
         Append(colors, DominantColor(color_bytes[i + 1], color_bytes[i + 2],
                                      color_bytes[i + 3],
                                      rgb_to_hex(color_bytes[i + 1], color_bytes[i + 2],
                                                 color_bytes[i + 3]))))
  ELSE color_loop_one_more(color_bytes, max_colors, i + 3, colors)

collect_colors_one_more(color_bytes, max_colors) ==
  color_loop_one_more(color_bytes, max_colors, 0, <<>>)

\* The conversion loop putting each new entry in front.
RECURSIVE color_loop_prepends(_, _, _, _)
color_loop_prepends(color_bytes, max_colors, i, colors) ==
  IF i >= Len(color_bytes) THEN colors
  ELSE IF Len(colors) >= max_colors THEN colors
  ELSE IF i + 2 < Len(color_bytes)
  THEN color_loop_prepends(color_bytes, max_colors, i + 3,
         <<DominantColor(color_bytes[i + 1], color_bytes[i + 2], color_bytes[i + 3],
                         rgb_to_hex(color_bytes[i + 1], color_bytes[i + 2],
                                    color_bytes[i + 3]))>> \o colors)
  ELSE color_loop_prepends(color_bytes, max_colors, i + 3, colors)

collect_colors_prepends(color_bytes, max_colors) ==
  color_loop_prepends(color_bytes, max_colors, 0, <<>>)

\* `for i in (0..color_bytes.len()).step_by(3)` from index i on (0-based, as
\* in the source; sequences here are 1-based).
RECURSIVE color_loop(_, _, _, _)
color_loop(color_bytes, max_colors, i, colors) ==
  IF i >= Len(color_bytes) THEN colors
  ELSE IF Len(colors) >= max_colors THEN colors
  ELSE IF i + 2 < Len(color_bytes)
  THEN color_loop(color_bytes, max_colors, i + 3,
         Append(colors, DominantColor(color_bytes[i + 1], color_bytes[i + 2],
                                      color_bytes[i + 3],
                                      rgb_to_hex(color_bytes[i + 1], color_bytes[i + 2],
                                                 color_bytes[i + 3]))))
  ELSE color_loop(color_bytes, max_colors, i + 3, colors)

\* "Convert to DominantColor structs (3 bytes per color: R, G, B)"
collect_colors(color_bytes, max_colors) == color_loop(color_bytes, max_colors, 0, <<>>)

\* "If no colors found, return black as fallback"
with_fallback(colors) == IF colors = <<>> THEN <<black>> ELSE colors

DominantColorsResult(colors) == [colors |-> colors, primary |-> colors[1]]

\* in.color_bytes is what dominant_color::get_colors returns for the decoded
\* pixels.
dominant_colors_sync(in) ==
  LET c1 == <<Call("decode_image", None, None)>>
      c2 == Append(c1, Call("get_colors", None, None))
      max_colors == unwrap_or(in.count, 5)
  IN  IF ~in.img.decodable \/ ~in.img.decode_ok THEN Done(decode_error, c1)
      ELSE Done(Ok(DominantColorsResult(
                     with_fallback(collect_colors(in.color_bytes, max_colors)))), c2)

\* The closure of dominant_colors is the same body.
dominant_colors_task(in) == dominant_colors_sync(in)

(***************************************************************************)
(* Inputs.  An image buffer is described by what the collaborators report  *)
(* for it: whether it decodes, its dimensions and format, and the outcome  *)
(* of the saliency scorer and of the encoder on it.                        *)
(***************************************************************************)
MaxSrcDim == 2
MaxRatioLen == 3

\* Source dimensions: the smallest ones, one on which the f64 product falls
\* below the exact one (15 with 1:11), and the 1000 of the documented example.
SrcDims == (1..MaxSrcDim) \cup {15, 1000}

\* A sound buffer of w x h pixels on which every collaborator succeeds, the
\* decoder meets a requested target exactly and the resizer its Fill target.
Exact == [full |-> FALSE, pw |-> 100, ph |-> 100]

Image(w, h) ==
  [decodable |-> TRUE, w |-> w, h |-> h, format |-> "jpeg", has_alpha |-> FALSE,
   decode_ok |-> TRUE, dec |-> Exact, resize_ok |-> TRUE, resize_exact |-> TRUE,
   finder_ok |-> TRUE, crop |-> [x |-> 0, y |-> 0, width |-> 1, height |-> 1],
   encode_ok |-> TRUE, exif_ok |-> TRUE]

Images == {Image(w, h) : w \in SrcDims, h \in SrcDims}

\* The same buffers with one collaborator failing.
Broken(i) ==
  {[i EXCEPT !.decodable = FALSE],
   [i EXCEPT !.decode_ok = FALSE],
   [i EXCEPT !.resize_ok = FALSE],
   [i EXCEPT !.finder_ok = FALSE],
   [i EXCEPT !.encode_ok = FALSE],
   [i EXCEPT !.exif_ok = FALSE]}

BrokenImages == Broken(Image(2, 15))

\* The same buffers with two collaborators failing.
BrokenTwice(i) ==
  {[i EXCEPT !.decodable = FALSE, !.decode_ok = FALSE],
   [i EXCEPT !.decode_ok = FALSE, !.resize_ok = FALSE],
   [i EXCEPT !.decode_ok = FALSE, !.encode_ok = FALSE],
   [i EXCEPT !.resize_ok = FALSE, !.encode_ok = FALSE]}

RatioAlphabet == {"0", "1", ":", "a", " "}

ShortRatios == UNION {[1..n -> RatioAlphabet] : n \in 0..MaxRatioLen}

RatioExamples ==
  {<<"1", "6", ":", "9">>, <<"1", "6", ":", "9", ":", "1">>, <<"0", ":", "9">>,
   <<"a", ":", "9">>, <<"9", ":", "1", "6">>, <<"1", ":", "1", "1">>,
   <<"4", ":", "3">>, <<" ", "1", "6", " ", ":", " ", "9", " ">>,
   <<"1", "6", "x", "9">>, <<"1", "6", ":", "-", "9">>, <<"+", "4", ":", "3">>,
   <<"1", "6", ":">>}

OptDims == {None, Some(0), Some(1), Some(15), Some(2000)}

SmartCropOptions(width, height, aspect_ratio) ==
  [width |-> width, height |-> height, aspect_ratio |-> aspect_ratio]

SmartCropInputs ==
  {[img |-> i, options |-> SmartCropOptions(None, None, Some(s))] :
      i \in Images, s \in RatioExamples}
  \cup {[img |-> Image(2, 2), options |-> SmartCropOptions(None, None, Some(s))] :
      s \in ShortRatios}
  \cup {[img |-> i, options |-> SmartCropOptions(w, h, None)] :
      i \in Images, w \in OptDims, h \in OptDims}
  \cup {[img |-> Image(1000, 1000),
         options |-> SmartCropOptions(w, h, Some(<<"1", "6", ":", "9">>))] :
      w \in OptDims, h \in OptDims}
  \cup {[img |-> i, options |-> o] :
      i \in BrokenImages,
      o \in {SmartCropOptions(None, None, None),
             SmartCropOptions(Some(0), None, None),
             SmartCropOptions(None, None, Some(<<"4", ":", "3">>)),
             SmartCropOptions(None, None, Some(<<"a", ":", "9">>))}}

\* Thumbnail requests.
MaxThumbWidth == 2

OptBool == {None, Some(TRUE), Some(FALSE)}

ThumbnailOptions(width, height, format, quality, fast_mode, shrink_on_load, filter) ==
  [width |-> width, height |-> height, format |-> format, quality |-> quality,
   fast_mode |-> fast_mode, shrink_on_load |-> shrink_on_load, filter |-> filter]

PlainThumbnail(width, height) ==
  ThumbnailOptions(width, height, None, None, None, None, None)

ThumbImages == {Image(4000, 3000), Image(800, 600), Image(6, 9), Image(1000, 3)}

ThumbWidths == (0..MaxThumbWidth) \cup {82, 200}

\* What the decoder returns, in percent of the requested target.
Percents == {84, 85, 100, 106, 115, 116, 120}

DecModes ==
  {[full |-> TRUE, pw |-> 100, ph |-> 100]}
  \cup {[full |-> FALSE, pw |-> pw, ph |-> ph] : pw \in Percents, ph \in Percents}

InputFormats == {"jpeg", "jpg", "png", "webp", "gif"}

ThumbnailInputs ==
  \* the target resolution
  {[img |-> i, options |-> PlainThumbnail(w, h)] :
      i \in ThumbImages, w \in ThumbWidths, h \in {None, Some(0), Some(200)}}
  \* the decoder's answer against the target, in both modes
  \cup {[img |-> [Image(4000, 3000) EXCEPT !.dec = d],
         options |-> ThumbnailOptions(200, h, None, None, f, s, None)] :
      d \in DecModes, h \in {None, Some(200)}, f \in OptBool, s \in OptBool}
  \* formats, quality and filter
  \cup {[img |-> [Image(4000, 3000) EXCEPT !.format = fmt, !.dec.full = full],
         options |-> ThumbnailOptions(200, None, of, q, f, None, fl)] :
      fmt \in InputFormats, full \in BOOLEAN,
      of \in {None, Some("Jpeg"), Some("Png"), Some("Webp")},
      q \in {None, Some(50)}, f \in {None, Some(TRUE)},
      fl \in {None, Some("Lanczos3")}}
  \* a failing collaborator
  \cup {[img |-> i, options |-> ThumbnailOptions(200, None, None, None, f, s, None)] :
      i \in Broken(Image(4000, 3000)) \cup BrokenTwice(Image(4000, 3000))
            \cup {[Image(4000, 3000) EXCEPT !.dec.full = TRUE, !.resize_exact = FALSE]},
      f \in OptBool, s \in OptBool}

ResizeOptions(width, height) ==
  [width |-> width, height |-> height, filter |-> None, fit |-> None,
   background |-> None]

ResizeInputs ==
  {[img |-> i, options |-> ResizeOptions(w, h)] :
      i \in {Image(4000, 3000)} \cup Broken(Image(4000, 3000)),
      w \in {None, Some(0), Some(200)}, h \in {None, Some(0), Some(200)}}

ThumbhashDims == {1, 50, 100, 101, 333, 480, 768, 4000}

ThumbhashInputs ==
  {[img |-> [Image(w, h) EXCEPT !.dec = d, !.has_alpha = a]] :
      w \in ThumbhashDims, h \in ThumbhashDims, a \in BOOLEAN,
      d \in {Exact, [full |-> TRUE, pw |-> 100, ph |-> 100],
             [full |-> FALSE, pw |-> 120, ph |-> 106]}}
  \cup {[img |-> i] : i \in Broken(Image(4000, 3000))}

\* A hash string: whether it is well-formed base64 of a hash, and its bits.
MaxHashBits == 2

Hashes ==
  {[valid |-> FALSE, bits |-> <<>>]}
  \cup {[valid |-> TRUE, bits |-> b] : b \in [1..MaxHashBits -> {0, 1}]}

HashDistanceInputs == {[hash1 |-> a, hash2 |-> b] : a \in Hashes, b \in Hashes}

PlainInputs ==
  {[img |-> [i EXCEPT !.format = f]] :
      i \in {Image(2, 15)} \cup BrokenImages, f \in {"jpeg", "webp", "png", "gif"}}

\* Extractor outputs: every byte list of up to MaxColorBytes bytes over two
\* byte values, and the prefixes of one list of seven colours.
MaxColorBytes == 4
MaxCount == 2

ByteValues == {0, 171}

ShortColorBytes == UNION {[1..n -> ByteValues] : n \in 0..MaxColorBytes}

SevenColors ==
  <<255, 0, 0,  0, 255, 0,  0, 0, 255,  18, 52, 86,  171, 205, 239,
    0, 0, 0,  9, 160, 15>>

ColorBytes == ShortColorBytes \cup {SubSeq(SevenColors, 1, n) : n \in 0..Len(SevenColors)}

Counts == {None, Some(7)} \cup {Some(c) : c \in 0..MaxCount}

DominantColorsInputs ==
  {[img |-> Image(2, 15), color_bytes |-> s, count |-> c] :
      s \in ColorBytes, c \in Counts}
  \cup {[img |-> i, color_bytes |-> SevenColors, count |-> None] :
          i \in Broken(Image(2, 15))}

(***************************************************************************)
(* The state: one call at a time.  A blocking entry point runs on the      *)
(* caller's thread (idle -> done).  A non-blocking one hands its closure   *)
(* to spawn_blocking (idle -> queued), a pool thread runs it               *)
(* (queued -> joined) or the task is lost to a panic or a runtime shutdown *)
(* (queued -> lost), and the awaiting caller is resumed with the outcome   *)
(* (joined/lost -> done).                                                  *)
(***************************************************************************)
VARIABLES
  pc,        \* "idle", "queued", "joined", "lost", "done"
  req,       \* the call in progress: [op, async, in]
  trace,     \* the collaborator calls it has made
  out,       \* what the closure returned to the JoinHandle
  result,    \* what the caller received
  spawned,   \* tasks handed to spawn_blocking for this call
  delivered  \* outcomes handed to the caller for this call

vars == <<pc, req, trace, out, result, spawned, delivered>>

NoReq == [op |-> "none", async |-> FALSE, in |-> <<>>]
NoResult == [ok |-> FALSE, v |-> 0, tag |-> "none", at |-> ""]

Init ==
  /\ pc = "idle"
  /\ req = NoReq
  /\ trace = <<>>
  /\ out = NoResult
  /\ result = NoResult
  /\ spawned = 0
  /\ delivered = 0

\* The body of each entry point: the blocking function, or the closure the
\* non-blocking one hands to spawn_blocking.
sync_body(op, in) ==
  CASE op = "smart_crop_analyze" -> smart_crop_analyze_sync(in)
    [] op = "smart_crop" -> smart_crop_sync(in)
    [] op = "thumbnail" -> thumbnail_sync(in)
    [] op = "thumbnail_buffer" -> thumbnail_buffer_sync(in)
    [] op = "metadata" -> metadata_sync(in)
    [] op = "resize" -> resize_sync(in)
    [] op = "thumbhash" -> thumbhash_sync(in)
    [] op = "image_hash_distance" -> image_hash_distance_sync(in)
    [] op = "write_exif" -> write_exif_sync(in)
    [] op = "strip_exif" -> strip_exif_sync(in)
    [] op = "dominant_colors" -> dominant_colors_sync(in)

task_body(op, in) ==
  CASE op = "smart_crop_analyze" -> smart_crop_analyze_task(in)
    [] op = "smart_crop" -> smart_crop_task(in)
    [] op = "thumbnail" -> thumbnail_task(in)
    [] op = "thumbnail_buffer" -> thumbnail_buffer_task(in)
    [] op = "metadata" -> metadata_task(in)
    [] op = "resize" -> resize_task(in)
    [] op = "thumbhash" -> thumbhash_task(in)
    [] op = "image_hash_distance" -> image_hash_distance_task(in)
    [] op = "write_exif" -> write_exif_task(in)
    [] op = "strip_exif" -> strip_exif_task(in)
    [] op = "dominant_colors" -> dominant_colors_task(in)

\* A blocking entry point called with input `in` runs to its end, d, on the
\* caller's thread.
RunSync(op, in, d) ==
  /\ pc = "idle"
  /\ pc' = "done"
  /\ req' = [op |-> op, async |-> FALSE, in |-> in]
  /\ trace' = d.calls
  /\ result' = into_napi(d.res)
  /\ delivered' = delivered + 1
  /\ UNCHANGED <<out, spawned>>

CallSync(op, in) == RunSync(op, in, sync_body(op, in))

\* A non-blocking entry point called: tokio::task::spawn_blocking(closure).
Spawn(op, in) ==
  /\ pc = "idle"
  /\ pc' = "queued"
  /\ req' = [op |-> op, async |-> TRUE, in |-> in]
  /\ spawned' = spawned + 1
  /\ UNCHANGED <<trace, out, result, delivered>>

SmartCropAnalyzeSync == \E in \in SmartCropInputs : CallSync("smart_crop_analyze", in)
SmartCropAnalyze == \E in \in SmartCropInputs : Spawn("smart_crop_analyze", in)
SmartCropSync == \E in \in SmartCropInputs : CallSync("smart_crop", in)
SmartCrop == \E in \in SmartCropInputs : Spawn("smart_crop", in)
ThumbnailSync == \E in \in ThumbnailInputs : CallSync("thumbnail", in)
Thumbnail == \E in \in ThumbnailInputs : Spawn("thumbnail", in)
ThumbnailBufferSync == \E in \in ThumbnailInputs : CallSync("thumbnail_buffer", in)
ThumbnailBuffer == \E in \in ThumbnailInputs : Spawn("thumbnail_buffer", in)
MetadataSync == \E in \in PlainInputs : CallSync("metadata", in)
Metadata == \E in \in PlainInputs : Spawn("metadata", in)
ResizeSync == \E in \in ResizeInputs : CallSync("resize", in)
Resize == \E in \in ResizeInputs : Spawn("resize", in)
ThumbhashSync == \E in \in ThumbhashInputs : CallSync("thumbhash", in)
Thumbhash == \E in \in ThumbhashInputs : Spawn("thumbhash", in)
ImageHashDistanceSync ==
  \E in \in HashDistanceInputs : CallSync("image_hash_distance", in)
ImageHashDistance == \E in \in HashDistanceInputs : Spawn("image_hash_distance", in)
WriteExifSync == \E in \in PlainInputs : CallSync("write_exif", in)
WriteExif == \E in \in PlainInputs : Spawn("write_exif", in)
StripExifSync == \E in \in PlainInputs : CallSync("strip_exif", in)
StripExif == \E in \in PlainInputs : Spawn("strip_exif", in)
DominantColorsSync ==
  \E in \in DominantColorsInputs : CallSync("dominant_colors", in)
DominantColors == \E in \in DominantColorsInputs : Spawn("dominant_colors", in)

\* A pool thread runs the closure to its end, d.
RunTask(d) ==
  /\ pc = "queued"
  /\ pc' = "joined"
  /\ trace' = d.calls
  /\ out' = d.res
  /\ UNCHANGED <<req, result, spawned, delivered>>

RunBlocking == pc = "queued" /\ RunTask(task_body(req.op, req.in))

\* The task ends without a value (the closure panicked, or the runtime shut
\* down before it ran): the JoinHandle yields a JoinError.
TaskLost ==
  /\ pc = "queued"
  /\ pc' = "lost"
  /\ UNCHANGED <<req, trace, out, result, spawned, delivered>>

\* Await without the JoinError branch: a lost task never resumes the caller.
AwaitJoinedOnly ==
  /\ pc = "joined"
  /\ pc' = "done"
  /\ result' = into_napi(out)
  /\ delivered' = delivered + 1
  /\ UNCHANGED <<req, trace, out, spawned>>

\* `.await.map_err(Task error)?.map_err(|e| e.into())`
Await ==
  /\ pc \in {"joined", "lost"}
  /\ pc' = "done"
  /\ result' = IF pc = "lost" THEN task_error ELSE into_napi(out)
  /\ delivered' = delivered + 1
  /\ UNCHANGED <<req, trace, out, spawned>>

\* The call is over; the next one starts from a clean slate (no state is
\* kept across calls).
Return ==
  /\ pc = "done"
  /\ pc' = "idle"
  /\ req' = NoReq
  /\ trace' = <<>>
  /\ out' = NoResult
  /\ result' = NoResult
  /\ spawned' = 0
  /\ delivered' = 0

Next ==
  \/ SmartCropAnalyzeSync
  \/ SmartCropAnalyze
  \/ SmartCropSync
  \/ SmartCrop
  \/ ThumbnailSync
  \/ Thumbnail
  \/ ThumbnailBufferSync
  \/ ThumbnailBuffer
  \/ MetadataSync
  \/ Metadata
  \/ ResizeSync
  \/ Resize
  \/ ThumbhashSync
  \/ Thumbhash
  \/ ImageHashDistanceSync
  \/ ImageHashDistance
  \/ WriteExifSync
  \/ WriteExif
  \/ StripExifSync
  \/ StripExif
  \/ DominantColorsSync
  \/ DominantColors
  \/ RunBlocking
  \/ TaskLost
  \/ Await
  \/ Return

Spec == Init /\ [][Next]_vars

(***************************************************************************)
(* Properties.                                                             *)
(***************************************************************************)
\* The body of the call in progress has run: `trace` holds its calls.
BodyRan ==
  \/ pc = "joined"
  \/ pc = "done" /\ ~(req.async /\ result.tag = "TaskError")

IsSmartCrop == req.op \in {"smart_crop_analyze", "smart_crop"}

\* The targets the call handed to the best-crop finder.
FinderTargets ==
  {[w |-> trace[i].w.v, h |-> trace[i].h.v] :
     i \in {j \in 1..Len(trace) : trace[j].fn = "find_best_crop"}}

\* The call asks for an aspect ratio that parses.
HasValidRatio ==
  /\ IsSmartCrop
  /\ req.in.options.aspect_ratio.some
  /\ parse_aspect_ratio(req.in.options.aspect_ratio.v).ok

Ratio == parse_aspect_ratio(req.in.options.aspect_ratio.v)

\* W * scale and H * scale for scale = min(imgW / W, imgH / H), in exact
\* arithmetic: rounded down, and rounded to the nearest integer.
ExactFloorTarget(iw, ih, rw, rh) ==
  IF iw * rh <= ih * rw
  THEN [w |-> iw, h |-> (rh * iw) \div rw]
  ELSE [w |-> (rw * ih) \div rh, h |-> ih]

ExactRoundTarget(iw, ih, rw, rh) ==
  IF iw * rh <= ih * rw
  THEN [w |-> iw, h |-> (2 * rh * iw + rw) \div (2 * rw)]
  ELSE [w |-> (2 * rw * ih + rh) \div (2 * rh), h |-> ih]

\* C1, as stated: with a valid aspectRatio = "W:H" every smart-crop entry
\* point resolves the target (round(W*scale), round(H*scale)),
\* scale = min(imgWidth/W, imgHeight/H).
C1_TargetIsRounded ==
  (BodyRan /\ HasValidRatio) =>
    \A t \in FinderTargets :
      t = ExactRoundTarget(req.in.img.w, req.in.img.h, Ratio.w, Ratio.h)

\* C1, the part that holds: the target is (trunc(W*scale), trunc(H*scale)),
\* the f64 products cast to u32.  Each side is at most the exact product's
\* floor and at least one less (one less where the f64 product falls just
\* below an integer).
C1_TargetIsTruncated ==
  (BodyRan /\ HasValidRatio) =>
    LET iw    == req.in.img.w
        ih    == req.in.img.h
        scale == FMin(FDiv(iw, Ratio.w, F64Bits), FDiv(ih, Ratio.h, F64Bits))
        tw    == FTrunc(FMulInt(Ratio.w, scale, F64Bits))
        th    == FTrunc(FMulInt(Ratio.h, scale, F64Bits))
        fl    == ExactFloorTarget(iw, ih, Ratio.w, Ratio.h)
    IN  /\ \A t \in FinderTargets :
             /\ t = [w |-> tw, h |-> th]
             /\ t.w \in {fl.w - 1, fl.w}
             /\ t.h \in {fl.h - 1, fl.h}
        /\ (req.in.img.decodable /\ tw > 0 /\ th > 0) => FinderTargets # {}

\* C1's failing input: on a 2x15 source "1:11" has the exact window 1x15 and
\* the finder is handed 1x14.
C1_FloatFallsShort ==
  /\ pc = "done" /\ ~req.async /\ HasValidRatio
  /\ req.in.img.w = 2 /\ req.in.img.h = 15 /\ Ratio.w = 1 /\ Ratio.h = 11
  /\ ExactRoundTarget(2, 15, 1, 11) = [w |-> 1, h |-> 15]
  /\ FinderTargets = {[w |-> 1, h |-> 14]}

\* C2: on a 1000x1000 source "16:9" resolves to exactly 1000x562, and for
\* every source and valid ratio the target is no wider and no taller than
\* the source.
C2_TargetFitsSource ==
  (BodyRan /\ HasValidRatio) =>
    /\ \A t \in FinderTargets : t.w <= req.in.img.w /\ t.h <= req.in.img.h
    /\ (/\ req.in.img.decodable
        /\ req.in.img.w = 1000 /\ req.in.img.h = 1000
        /\ Ratio.w = 16 /\ Ratio.h = 9)
       => FinderTargets = {[w |-> 1000, h |-> 562]}

C2_Witness ==
  /\ pc = "done" /\ req.async /\ HasValidRatio
  /\ req.in.img.w = 1000 /\ req.in.img.h = 1000
  /\ req.in.options.aspect_ratio.v = <<"1", "6", ":", "9">>
  /\ [w |-> 1000, h |-> 562] \in FinderTargets

\* What the body of the call in progress ended with.
Outcome == IF pc = "joined" THEN out ELSE result

IsThumbnail == req.op \in {"thumbnail", "thumbnail_buffer"}

\* The targets the thumbnail pipeline handed to the decoder and the resizer.
ThumbnailTargets ==
  {[w |-> trace[i].w.v, h |-> trace[i].h.v] :
     i \in {j \in 1..Len(trace) :
              trace[j].fn \in {"decode_image_with_target_fast", "resize_image"}}}

\* C3: for a source W x H and a request of width w, the target is (w, height)
\* when a height is given and else (w, max(1, round(w * H / W))).
C3_HeightIsRounded ==
  (BodyRan /\ IsThumbnail) =>
    LET o == req.in.options
        W == req.in.img.w
        H == req.in.img.h
    IN  \A t \in ThumbnailTargets :
          /\ t.w = o.width
          /\ t.h = IF o.height.some THEN o.height.v
                   ELSE Max(1, (2 * o.width * H + W) \div (2 * W))

\* C3, the part that holds: the width and a given height pass unchanged, and
\* a derived height is at least 1 and, above 1, within one half of the exact
\* quotient w * H / W (a quotient half-way between two integers goes either
\* way).
C3_HeightIsNearQuotient ==
  (BodyRan /\ IsThumbnail) =>
    LET o == req.in.options
        W == req.in.img.w
        H == req.in.img.h
    IN  \A t \in ThumbnailTargets :
          /\ t.w = o.width
          /\ o.height.some => t.h = o.height.v
          /\ ~o.height.some =>
               /\ t.h >= 1
               /\ 2 * t.h * W >= 2 * o.width * H - W \/ t.h = 1
               /\ 2 * t.h * W <= 2 * o.width * H + W \/ t.h = 1

\* C3's failing input: an 800x600 source and width 82 have the exact height
\* 61.5, which rounds to 62; the decoder is handed 82x61.
C3_TieRoundsDown ==
  /\ pc = "done" /\ req.op = "thumbnail" /\ ~req.async
  /\ req.in.img.w = 800 /\ req.in.img.h = 600
  /\ req.in.options.width = 82 /\ ~req.in.options.height.some
  /\ 2 * 82 * 600 = 123 * 800
  /\ ThumbnailTargets = {[w |-> 82, h |-> 61]}

\* The text between the first and the last character of s that is no space.
Core(s) ==
  LET idx == {i \in 1..Len(s) : s[i] # " "}
  IN  IF idx = {} THEN <<>>
      ELSE SubSeq(s, CHOOSE i \in idx : \A j \in idx : i <= j,
                     CHOOSE i \in idx : \A j \in idx : i >= j)

\* s, spaces around it apart, is a decimal numeral (with an optional '+')
\* of an integer greater than zero.
PositiveNumeral(s) ==
  LET c == Core(s)
      d == IF c # <<>> /\ c[1] = "+" THEN Tail(c) ELSE c
  IN  /\ d # <<>>
      /\ \A i \in 1..Len(d) : d[i] \in Digits
      /\ \E i \in 1..Len(d) : d[i] # "0"

\* s has exactly one ':' and a positive numeral on either side of it.
WellFormedRatio(s) ==
  LET colons == {i \in 1..Len(s) : s[i] = ":"}
  IN  /\ Cardinality(colons) = 1
      /\ LET i == CHOOSE j \in colons : TRUE
         IN  /\ PositiveNumeral(SubSeq(s, 1, i - 1))
             /\ PositiveNumeral(SubSeq(s, i + 1, Len(s)))

RatioRejected == ~Outcome.ok /\ Outcome.at = "aspect_ratio"

\* C4: the ratio string is accepted exactly when it is two positive integers
\* around one ':', "16:9" gives (16, 9), and a rejected string fails the call
\* with an error tagged InvalidOption.
C4_RejectsWithInvalidOption ==
  (BodyRan /\ IsSmartCrop /\ req.in.img.decodable /\ req.in.options.aspect_ratio.some) =>
    /\ parse_aspect_ratio(<<"1", "6", ":", "9">>) = [ok |-> TRUE, w |-> 16, h |-> 9]
    /\ RatioRejected <=> ~WellFormedRatio(req.in.options.aspect_ratio.v)
    /\ ~WellFormedRatio(req.in.options.aspect_ratio.v) =>
         ~Outcome.ok /\ Outcome.tag = "InvalidOption"

\* C4, the part that holds: which strings are accepted, and that a rejected
\* one fails the call.
C4_AcceptsWellFormed ==
  (BodyRan /\ IsSmartCrop /\ req.in.img.decodable /\ req.in.options.aspect_ratio.some) =>
    /\ parse_aspect_ratio(<<"1", "6", ":", "9">>) = [ok |-> TRUE, w |-> 16, h |-> 9]
    /\ RatioRejected <=> ~WellFormedRatio(req.in.options.aspect_ratio.v)
    /\ RatioRejected => FinderTargets = {}

\* C4's failing input: "16:9:1" is rejected by the blocking form with an
\* untagged error.
C4_RejectedUntagged ==
  /\ pc = "done" /\ req.op = "smart_crop_analyze" /\ ~req.async
  /\ req.in.img.decodable
  /\ req.in.options.aspect_ratio = Some(<<"1", "6", ":", "9", ":", "1">>)
  /\ RatioRejected /\ result.tag = "GenericFailure"

\* The target of the smart-crop call in progress has a zero side.
ZeroTarget ==
  LET t == smart_crop_target(req.in.img.w, req.in.img.h, req.in.options)
  IN  t.ok /\ (t.w = 0 \/ t.h = 0)

\* C5: a smart-crop call whose resolved target has a zero side fails with
\* InvalidOption, before the best-crop finder is invoked.
C5_ZeroTargetIsInvalidOption ==
  (BodyRan /\ IsSmartCrop /\ req.in.img.decodable /\ ZeroTarget) =>
    /\ ~Outcome.ok
    /\ Outcome.tag = "InvalidOption"
    /\ FinderTargets = {}

\* C5, the part that holds: the call fails at the zero side and the finder
\* is not invoked.
C5_ZeroTargetFails ==
  (BodyRan /\ IsSmartCrop /\ req.in.img.decodable /\ ZeroTarget) =>
    /\ ~Outcome.ok
    /\ Outcome.at \in {"target_width", "target_height"}
    /\ FinderTargets = {}

\* C5's failing input: width = 0 fails the non-blocking smartCrop with a
\* ProcessingError.
C5_ZeroWidthIsProcessingError ==
  /\ pc = "done" /\ req.op = "smart_crop" /\ req.async
  /\ req.in.img.decodable
  /\ req.in.options.width = Some(0) /\ ~req.in.options.aspect_ratio.some
  /\ ~result.ok /\ result.tag = "ProcessingError" /\ result.at = "target_width"
  /\ FinderTargets = {}

TakesTarget ==
  {"decode_image_with_target", "decode_image_with_target_fast", "resize_image",
   "find_best_crop", "crop_imm"}

\* C6: every width and height handed to a decode, resize or crop collaborator
\* as a target is strictly positive.
C6_TargetsArePositive ==
  (BodyRan /\ req.op \in {"thumbnail", "thumbnail_buffer", "resize", "thumbhash",
                          "smart_crop", "smart_crop_analyze"}) =>
    \A i \in 1..Len(trace) :
      trace[i].fn \in TakesTarget =>
        /\ trace[i].w.some => trace[i].w.v > 0
        /\ trace[i].h.some => trace[i].h.v > 0

\* C6, the part that holds: the smart-crop entry points and thumbhash hand on
\* positive targets only.
C6_CropTargetsArePositive ==
  (BodyRan /\ req.op \in {"thumbhash", "smart_crop", "smart_crop_analyze"}) =>
    \A i \in 1..Len(trace) :
      trace[i].fn \in TakesTarget =>
        /\ trace[i].w.some => trace[i].w.v > 0
        /\ trace[i].h.some => trace[i].h.v > 0

\* C6's failing input: resize with width = 0 hands the zero to the decoder
\* and to the resizer.
C6_ZeroWidthIsPassedOn ==
  /\ pc = "done" /\ req.op = "resize" /\ ~req.async
  /\ req.in.options.width = Some(0)
  /\ \E i, j \in 1..Len(trace) :
       /\ trace[i].fn = "decode_image_with_target" /\ trace[i].w = Some(0)
       /\ trace[j].fn = "resize_image" /\ trace[j].w = Some(0)

ExifWriters ==
  {"write_jpeg_exif", "write_webp_exif", "strip_jpeg_exif", "strip_webp_exif"}

WriterCalls == {i \in 1..Len(trace) : trace[i].fn \in ExifWriters}

\* C7: writeExif and stripExif succeed only on Jpeg and WebP; on any other
\* detected format they fail with UnsupportedFormat and invoke no writer.
C7_OtherFormatsAreUnsupported ==
  (BodyRan /\ req.op \in {"write_exif", "strip_exif"}) =>
    /\ Outcome.ok => req.in.img.format \in {"jpeg", "webp"}
    /\ (req.in.img.decodable /\ req.in.img.format \notin {"jpeg", "webp"}) =>
         /\ ~Outcome.ok
         /\ Outcome.tag = "UnsupportedFormat"
         /\ WriterCalls = {}

\* C7, the part that holds: only Jpeg and WebP succeed and no writer is
\* invoked for another format.
C7_OtherFormatsFail ==
  (BodyRan /\ req.op \in {"write_exif", "strip_exif"}) =>
    /\ Outcome.ok => req.in.img.format \in {"jpeg", "webp"}
    /\ (req.in.img.decodable /\ req.in.img.format \notin {"jpeg", "webp"}) =>
         ~Outcome.ok /\ Outcome.at = "format" /\ WriterCalls = {}

\* C7's failing input: the blocking stripExif on a PNG fails with an untagged
\* error.
C7_PngIsUntagged ==
  /\ pc = "done" /\ req.op = "strip_exif" /\ ~req.async
  /\ req.in.img.decodable /\ req.in.img.format = "png"
  /\ ~result.ok /\ result.tag = "GenericFailure" /\ result.at = "format"
  /\ WriterCalls = {}

\* C8: a non-blocking call whose task completed returns what the blocking
\* form returns on the same input: the same value, or an error of the same
\* tag at the same step.
C8_SyncAsyncAgree ==
  (pc = "done" /\ req.async /\ result.tag # "TaskError") =>
    LET s == into_napi(sync_body(req.op, req.in).res)
    IN  /\ result.ok = s.ok
        /\ result.ok => result.v = s.v
        /\ ~result.ok => result.tag = s.tag /\ result.at = s.at

\* C8, the part that holds: the two forms make the same collaborator calls,
\* succeed on the same inputs with the same value, and fail at the same step.
C8_SyncAsyncSameStep ==
  (pc = "done" /\ req.async /\ result.tag # "TaskError") =>
    LET s == sync_body(req.op, req.in)
    IN  /\ trace = s.calls
        /\ result.ok = s.res.ok
        /\ result.ok => result.v = s.res.v
        /\ ~result.ok => result.at = s.res.at

\* C8's failing input: an invalid hash1 fails the non-blocking form with a
\* ProcessingError and the blocking form with an untagged error.
C8_TagsDiffer ==
  /\ pc = "done" /\ req.op = "image_hash_distance" /\ req.async
  /\ ~req.in.hash1.valid
  /\ result.tag = "ProcessingError" /\ result.at = "hash1"
  /\ image_hash_distance_sync(req.in).res.tag = "GenericFailure"
  /\ image_hash_distance_sync(req.in).res.at = "hash1"

\* decoded / target lies in [0.85, 1.15], in exact arithmetic.
InBand(decoded, target) == 85 * target <= 100 * decoded /\ 100 * decoded <= 115 * target

ResizeCalls == {i \in 1..Len(trace) : trace[i].fn = "resize_image"}

\* The raster the thumbnail call in progress got from its decoder.
Decoded ==
  LET target == thumbnail_target(req.in.options, req.in.img.w, req.in.img.h)
  IN  IF unwrap_or(req.in.options.shrink_on_load, TRUE)
      THEN decoded_dims(req.in.img, target.w, target.h)
      ELSE [w |-> req.in.img.w, h |-> req.in.img.h]

\* C9: once the decoder has returned, the resize pass is skipped iff, with
\* fastMode false, the decoded raster has exactly the target's width and
\* height and, with fastMode true, decodedWidth / targetWidth and
\* decodedHeight / targetHeight both lie in [0.85, 1.15].
C9_ResizeSkipRule ==
  (BodyRan /\ IsThumbnail /\ req.in.img.decodable /\ req.in.img.decode_ok) =>
    LET target == thumbnail_target(req.in.options, req.in.img.w, req.in.img.h)
    IN  (ResizeCalls = {}) <=>
          IF unwrap_or(req.in.options.fast_mode, FALSE)
          THEN InBand(Decoded.w, target.w) /\ InBand(Decoded.h, target.h)
          ELSE Decoded.w = target.w /\ Decoded.h = target.h

\* C9's case: in fast mode a decoded 212x200 against the target 200x200 went
\* to the encoder without a resize.
C9_Witness ==
  /\ pc = "done" /\ req.op = "thumbnail" /\ result.ok
  /\ req.in.options.fast_mode = Some(TRUE)
  /\ req.in.options.width = 200 /\ req.in.options.height = Some(200)
  /\ Decoded = [w |-> 212, h |-> 200]
  /\ ResizeCalls = {}
  /\ result.v.width = 212 /\ result.v.height = 200

\* The scheduling the runtime gives: a pool thread takes every queued closure
\* (or the task is lost), and a caller whose JoinHandle is ready is resumed.
FairSpec == Spec /\ WF_vars(TaskLost \/ RunBlocking) /\ WF_vars(Await)

\* C10: a non-blocking call dispatches exactly one task and its caller gets
\* exactly one outcome, the task's value or tagged failure or, if the task
\* did not complete, TaskError; a dispatched task is not cancelled and not
\* dispatched again, and the call eventually completes.
C10_OneTaskOneOutcome ==
  /\ [](req.async =>
          /\ spawned = 1
          /\ delivered = IF pc = "done" THEN 1 ELSE 0
          /\ pc = "done" =>
               /\ out.tag = "none" => result.tag = "TaskError"
               /\ out.tag # "none" =>
                    /\ result.ok = out.ok /\ result.tag = out.tag
                    /\ out.ok => result.v = out.v)
  /\ [][/\ pc = "queued" => pc' \in {"joined", "lost"} /\ req' = req /\ spawned' = spawned
        /\ pc \in {"joined", "lost"} => pc' = "done" /\ req' = req /\ spawned' = spawned
        /\ ~req.async => spawned = 0 /\ pc' # "joined" /\ pc' # "lost"]_vars
  /\ (pc = "queued" ~> pc = "done")

\* C10's case: the task of a non-blocking call was lost and the caller got
\* TaskError, once.
C10_Witness ==
  /\ pc = "done" /\ req.async /\ req.op = "metadata"
  /\ result.tag = "TaskError"
  /\ spawned = 1 /\ delivered = 1

\* The step of the thumbnail pipeline a collaborator belongs to: 1 probe,
\* 2 decode, 3 resize, 4 encode.
StepOf(fn) ==
  CASE fn = "get_metadata" -> 1
    [] fn \in {"decode_image_with_target_fast", "decode_image"} -> 2
    [] fn = "resize_image" -> 3
    [] fn \in {"encode_jpeg", "encode_webp", "encode_png"} -> 4
    [] OTHER -> 0

\* The first step of the thumbnail call in progress whose collaborator
\* fails on the request's buffer (5: none does), given the steps it takes.
FirstFailingStep ==
  IF ~req.in.img.decodable THEN 1
  ELSE IF ~req.in.img.decode_ok THEN 2
  ELSE IF ResizeCalls # {} /\ ~req.in.img.resize_ok THEN 3
  ELSE IF ~req.in.img.encode_ok THEN 4
  ELSE 5

\* C11: a thumbnail call invokes probe, decode, resize (if any) and encode in
\* that order and each at most once; it succeeds after the encoder, or ends
\* at the first step that fails, with that step's tagged error and no later
\* step invoked.
C11_StepsInOrder ==
  (BodyRan /\ IsThumbnail) =>
    /\ Len(trace) >= 1
    /\ \A i \in 1..Len(trace) : StepOf(trace[i].fn) # 0
    /\ StepOf(trace[1].fn) = 1
    /\ \A i \in 1..(Len(trace) - 1) :
         \/ StepOf(trace[i + 1].fn) = StepOf(trace[i].fn) + 1
         \/ StepOf(trace[i].fn) = 2 /\ StepOf(trace[i + 1].fn) = 4
    /\ Outcome.ok <=> FirstFailingStep = 5
    /\ Outcome.ok => StepOf(trace[Len(trace)].fn) = 4
    /\ ~Outcome.ok =>
         /\ StepOf(trace[Len(trace)].fn) = FirstFailingStep
         /\ Outcome.tag \in {"DecodeError", "ProcessingError"}
         /\ Outcome.tag = "DecodeError" <=> FirstFailingStep \in {1, 2}

\* C11's case: the resizer and the encoder both fail on the buffer; the call
\* ends at the resizer and the encoder is not invoked.
C11_Witness ==
  /\ pc = "done" /\ req.op = "thumbnail" /\ req.async
  /\ ~req.in.img.resize_ok /\ ~req.in.img.encode_ok
  /\ Len(trace) = 3 /\ trace[3].fn = "resize_image"
  /\ ~result.ok /\ result.at = "resize"

\* The targets thumbhash handed to its decoder.
ThumbhashTargets ==
  {[w |-> trace[i].w.v, h |-> trace[i].h.v] :
     i \in {j \in 1..Len(trace) : trace[j].fn = "decode_image_with_target"}}

\* max(1, round(d * 100 / m)) in exact arithmetic.
ExactScaled(d, m) == Max(1, (200 * d + m) \div (2 * m))

\* C12: thumbhash decodes at (origW, origH) when neither exceeds 100, and
\* else at (max(1, round(origW*scale)), max(1, round(origH*scale))) with
\* scale = 100 / max(origW, origH): the larger side 100, the smaller one
\* between 1 and 100.
C12_TargetIsRounded ==
  (BodyRan /\ req.op = "thumbhash") =>
    LET W == req.in.img.w
        H == req.in.img.h
    IN  \A t \in ThumbhashTargets :
          IF W > 100 \/ H > 100
          THEN /\ t = [w |-> ExactScaled(W, Max(W, H)), h |-> ExactScaled(H, Max(W, H))]
               /\ Max(t.w, t.h) = 100
               /\ Min(t.w, t.h) \in 1..100
          ELSE t = [w |-> W, h |-> H]

\* C12, the part that holds: a source within 100x100 is decoded at its own
\* size; else the larger side of the target is 100 and the smaller one is
\* between 1 and 100 and, above 1, within one half of the exact quotient.
C12_TargetIsNearQuotient ==
  (BodyRan /\ req.op = "thumbhash") =>
    LET W == req.in.img.w
        H == req.in.img.h
        m == Max(W, H)
    IN  /\ req.in.img.decodable => ThumbhashTargets # {}
        /\ \A t \in ThumbhashTargets :
             IF W > 100 \/ H > 100
             THEN /\ Max(t.w, t.h) = 100
                  /\ Min(t.w, t.h) \in 1..100
                  /\ W >= H => t.w = 100
                  /\ H >= W => t.h = 100
                  /\ t.w = 1 \/ (2 * t.w * m >= 200 * W - m /\ 2 * t.w * m <= 200 * W + m)
                  /\ t.h = 1 \/ (2 * t.h * m >= 200 * H - m /\ 2 * t.h * m <= 200 * H + m)
             ELSE t = [w |-> W, h |-> H]

\* C12's failing input: a 768x480 source has the exact height 62.5, which
\* rounds to 63; the decoder is handed 100x62.
C12_TieRoundsDown ==
  /\ pc = "done" /\ req.op = "thumbhash" /\ ~req.async
  /\ req.in.img.w = 768 /\ req.in.img.h = 480
  /\ 2 * 100 * 480 = 125 * 768
  /\ ThumbhashTargets = {[w |-> 100, h |-> 62]}

\* The dimensions thumbhash handed to the packer.
PackerDims ==
  {[w |-> trace[i].w.v, h |-> trace[i].h.v] :
     i \in {j \in 1..Len(trace) : trace[j].fn = "rgba_to_thumb_hash"}}

\* The raster the decoder returned to the thumbhash call in progress.
ThumbhashDecoded ==
  {decoded_dims(req.in.img, t.w, t.h) : t \in ThumbhashTargets}

\* C13: a successful thumbhash reports the probed width, height and hasAlpha
\* of the original image, and the packer is invoked, once, with the
\* dimensions of the raster the decoder returned.
C13_ReportsOriginal ==
  (BodyRan /\ req.op = "thumbhash" /\ Outcome.ok) =>
    /\ Outcome.v.width = req.in.img.w
    /\ Outcome.v.height = req.in.img.h
    /\ Outcome.v.has_alpha = req.in.img.has_alpha
    /\ Cardinality({j \in 1..Len(trace) : trace[j].fn = "rgba_to_thumb_hash"}) = 1
    /\ PackerDims = ThumbhashDecoded
    /\ PackerDims = {Outcome.v.hash}

\* C13's case: the decoder returned a raster that is neither the original
\* nor the target; the packer got it and the result reports the original.
C13_Witness ==
  /\ pc = "done" /\ req.op = "thumbhash" /\ req.async /\ result.ok
  /\ req.in.img.w = 4000 /\ req.in.img.h = 768 /\ req.in.img.has_alpha
  /\ ThumbhashTargets = {[w |-> 100, h |-> 19]}
  /\ PackerDims = {[w |-> 120, h |-> 20]}
  /\ result.v.width = 4000 /\ result.v.height = 768 /\ result.v.has_alpha

\* C14: with an aspectRatio the smart-crop target is the ratio's window,
\* whatever width and height say; without one it is
\* (min(width or imgWidth, imgWidth), min(height or imgHeight, imgHeight)),
\* never larger than the source.
C14_RatioTakesPrecedence ==
  (BodyRan /\ IsSmartCrop /\ req.in.img.decodable) =>
    LET o  == req.in.options
        iw == req.in.img.w
        ih == req.in.img.h
    IN  IF o.aspect_ratio.some
        THEN /\ ~Ratio.ok => FinderTargets = {} /\ RatioRejected
             /\ Ratio.ok =>
                  LET fl == ExactFloorTarget(iw, ih, Ratio.w, Ratio.h)
                  IN  /\ \A t \in FinderTargets :
                           t.w \in {fl.w - 1, fl.w} /\ t.h \in {fl.h - 1, fl.h}
                      /\ fl.w > 1 /\ fl.h > 1 => FinderTargets # {}
        ELSE LET w == IF o.width.some /\ o.width.v < iw THEN o.width.v ELSE iw
                 h == IF o.height.some /\ o.height.v < ih THEN o.height.v ELSE ih
             IN  /\ \A t \in FinderTargets :
                      t = [w |-> w, h |-> h] /\ t.w <= iw /\ t.h <= ih
                 /\ w > 0 /\ h > 0 => FinderTargets # {}

\* C14's case: "16:9" on a 1000x1000 source with width = 15 and
\* height = 2000 also given; the finder gets the ratio's 1000x562.
C14_Witness ==
  /\ pc = "done" /\ req.op = "smart_crop" /\ ~req.async
  /\ req.in.img.w = 1000 /\ req.in.img.h = 1000
  /\ req.in.options.aspect_ratio = Some(<<"1", "6", ":", "9">>)
  /\ req.in.options.width = Some(15) /\ req.in.options.height = Some(2000)
  /\ FinderTargets = {[w |-> 1000, h |-> 562]}

\* C15: shrinkOnLoadUsed is true iff shrinkOnLoad was requested (true or
\* unset) and the decoded raster is narrower or shorter than the original;
\* it is false with shrinkOnLoad = false and false when the decoder returned
\* the full-size image.
C15_ShrinkOnLoadUsed ==
  (BodyRan /\ req.op = "thumbnail" /\ Outcome.ok) =>
    LET requested == req.in.options.shrink_on_load # Some(FALSE)
        used      == Outcome.v.shrink_on_load_used
    IN  /\ used <=> (requested /\ (Decoded.w < req.in.img.w \/ Decoded.h < req.in.img.h))
        /\ ~requested => ~used
        /\ Decoded = [w |-> req.in.img.w, h |-> req.in.img.h] => ~used

\* C15's case: shrinkOnLoad is unset and the decoder returned the full-size
\* image; the flag is false.
C15_Witness ==
  /\ pc = "done" /\ req.op = "thumbnail" /\ req.async /\ result.ok
  /\ ~req.in.options.shrink_on_load.some
  /\ req.in.img.dec.full
  /\ \E i \in 1..Len(trace) : trace[i].fn = "decode_image_with_target_fast"
  /\ ~result.v.shrink_on_load_used

\* The output format C16 describes, and the encoder that belongs to it.
ResolvedFormat ==
  LET o == req.in.options.format
      f == req.in.img.format
  IN  IF o = Some("Jpeg") THEN "jpeg"
      ELSE IF o = Some("Png") THEN "png"
      ELSE IF o = Some("Webp") THEN "webp"
      ELSE IF f = "jpeg" \/ f = "jpg" THEN "jpeg"
      ELSE IF f = "webp" THEN "webp"
      ELSE IF f = "png" THEN "png"
      ELSE "jpeg"

EncoderOf(format) ==
  IF format = "jpeg" THEN "encode_jpeg"
  ELSE IF format = "webp" THEN "encode_webp"
  ELSE "encode_png"

CollaboratorsSucceed ==
  /\ req.in.img.decodable /\ req.in.img.decode_ok
  /\ req.in.img.resize_ok /\ req.in.img.encode_ok

\* C16: the thumbnail's output format is options.format when given, else the
\* input format among jpeg/jpg, webp, png, else jpeg; the encoder invoked is
\* that format's and the result reports it; an unrecognised input format
\* never makes the call fail.
C16_OutputFormat ==
  (BodyRan /\ IsThumbnail) =>
    /\ \A i \in 1..Len(trace) :
         StepOf(trace[i].fn) = 4 => trace[i].fn = EncoderOf(ResolvedFormat)
    /\ (Outcome.ok /\ req.op = "thumbnail") => Outcome.v.format = ResolvedFormat
    /\ Outcome.ok => StepOf(trace[Len(trace)].fn) = 4
    /\ CollaboratorsSucceed => Outcome.ok

\* C16's case: a gif input and no explicit format; the JPEG encoder runs and
\* the result says jpeg.
C16_Witness ==
  /\ pc = "done" /\ req.op = "thumbnail" /\ ~req.async /\ result.ok
  /\ req.in.img.format = "gif" /\ ~req.in.options.format.some
  /\ trace[Len(trace)].fn = "encode_jpeg"
  /\ result.v.format = "jpeg"

IsDominantColors == req.op = "dominant_colors"

\* The number of complete R,G,B triples in the extractor's output, and the
\* k-th of them.
CompleteTriples == Len(req.in.color_bytes) \div 3

TripleAt(k) ==
  [r |-> req.in.color_bytes[3 * k - 2],
   g |-> req.in.color_bytes[3 * k - 1],
   b |-> req.in.color_bytes[3 * k]]

RequestedCount == IF req.in.count.some THEN req.in.count.v ELSE 5

\* The value of a "#RRGGBB" string's channel starting at position p.
HexVal(c) == CHOOSE n \in 0..15 : HexDigits[n + 1] = c

ChannelOf(hex, p) == 16 * HexVal(hex[p]) + HexVal(hex[p + 1])

\* Entry e is the colour rgb with its upper-case "#RRGGBB" string.
IsEntryOf(e, rgb) ==
  /\ e.r = rgb.r /\ e.g = rgb.g /\ e.b = rgb.b
  /\ Len(e.hex) = 7 /\ e.hex[1] = "#"
  /\ \A p \in 2..7 : e.hex[p] \in {HexDigits[n] : n \in 1..16}
  /\ ChannelOf(e.hex, 2) = rgb.r
  /\ ChannelOf(e.hex, 4) = rgb.g
  /\ ChannelOf(e.hex, 6) = rgb.b

IsBlackOnly(v) ==
  /\ Len(v.colors) = 1
  /\ v.colors[1] = [r |-> 0, g |-> 0, b |-> 0, hex |-> <<"#", "0", "0", "0", "0", "0", "0">>]
  /\ v.primary = v.colors[1]

\* v.colors is the first n colours of the extractor's output, in order.
IsFirstColors(v, n) ==
  /\ Len(v.colors) = n
  /\ \A k \in 1..Len(v.colors) :
       k <= CompleteTriples /\ IsEntryOf(v.colors[k], TripleAt(k))
  /\ v.primary = v.colors[1]

\* C17 as stated: the black entry alone when the extractor yields no colour;
\* otherwise the extractor's colours in order, truncated to count (default
\* 5), with primary = colors[0].
C17_TruncatedToCount ==
  (BodyRan /\ IsDominantColors /\ Outcome.ok) =>
    IF CompleteTriples = 0
    THEN IsBlackOnly(Outcome.v)
    ELSE IsFirstColors(Outcome.v, Min(RequestedCount, CompleteTriples))

\* C17: the black entry alone when no colour is taken, which is when the
\* extractor yields no colour or count is 0; otherwise the extractor's
\* colours in order, truncated to count (default 5), with primary =
\* colors[0].
C17_FallbackOrTruncated ==
  (BodyRan /\ IsDominantColors /\ Outcome.ok) =>
    IF CompleteTriples = 0 \/ RequestedCount = 0
    THEN IsBlackOnly(Outcome.v)
    ELSE IsFirstColors(Outcome.v, Min(RequestedCount, CompleteTriples))

\* C17's case: seven colours extracted, count = 0, and the answer is the
\* black entry, which is none of the seven in first place.
C17_Witness ==
  /\ pc = "done" /\ IsDominantColors /\ ~req.async /\ result.ok
  /\ req.in.color_bytes = SevenColors
  /\ req.in.count = Some(0)
  /\ result.v.colors = <<black>>
  /\ result.v.primary = black

\* C18: a resize pass of the thumbnail pipeline is requested with the
\* resolved target width and height, fit = Fill and no background; its filter
\* is Nearest when fastMode is true, whatever options.filter says, and is
\* options.filter itself (possibly unset) when fastMode is false.
C18_ResizeRequest ==
  (BodyRan /\ IsThumbnail) =>
    LET target == thumbnail_target(req.in.options, req.in.img.w, req.in.img.h)
        fast   == req.in.options.fast_mode = Some(TRUE)
    IN  \A i \in ResizeCalls :
          /\ trace[i].w = Some(target.w)
          /\ trace[i].h = Some(target.h)
          /\ trace[i].opts.fit = Some("Fill")
          /\ trace[i].opts.background = None
          /\ fast => trace[i].opts.filter = Some("Nearest")
          /\ ~fast => trace[i].opts.filter = req.in.options.filter

\* C18's case: fast mode with options.filter = Lanczos3 and a full-size
\* decode; the resizer is asked for 200x150 with Nearest.
C18_Witness ==
  /\ pc = "done" /\ req.op = "thumbnail_buffer" /\ req.async /\ result.ok
  /\ req.in.options.fast_mode = Some(TRUE)
  /\ req.in.options.filter = Some("Lanczos3")
  /\ \E i \in ResizeCalls :
       /\ trace[i].w = Some(200) /\ trace[i].h = Some(150)
       /\ trace[i].opts.filter = Some("Nearest")
       /\ trace[i].opts.fit = Some("Fill")

\* C19: a successful thumbnail reports the dimensions of the raster that was
\* encoded: the decoded ones when the resize was skipped, the resizer's
\* output otherwise.  With a resizer that returns exactly the Fill target,
\* the result is exactly the target when fastMode is false, whatever the
\* decoder returned, and each reported dimension is within [0.85, 1.15]
\* times its target when fastMode is true.
C19_ReportedDimensions ==
  (BodyRan /\ req.op = "thumbnail" /\ Outcome.ok) =>
    LET target == thumbnail_target(req.in.options, req.in.img.w, req.in.img.h)
        v      == Outcome.v
    IN  /\ [w |-> v.width, h |-> v.height] =
             IF ResizeCalls = {} THEN Decoded ELSE resized_dims(req.in.img, target)
        /\ v.data.width = v.width /\ v.data.height = v.height
        /\ req.in.img.resize_exact =>
             IF req.in.options.fast_mode = Some(TRUE)
             THEN InBand(v.width, target.w) /\ InBand(v.height, target.h)
             ELSE v.width = target.w /\ v.height = target.h

\* C19's case: in fast mode the decoder returned 230x170 for the target
\* 200x200, no resize ran, and the result reports 230x170.
C19_Witness ==
  /\ pc = "done" /\ req.op = "thumbnail" /\ ~req.async /\ result.ok
  /\ req.in.options.fast_mode = Some(TRUE)
  /\ req.in.options.width = 200 /\ req.in.options.height = Some(200)
  /\ ResizeCalls = {}
  /\ Decoded = [w |-> 230, h |-> 170]
  /\ result.v.width = 230 /\ result.v.height = 170

\* C20: for every extractor output and every count, count = 0 and byte lists
\* whose length is not a multiple of 3 included, colors has at least 1 and at
\* most max(1, count) entries, each entry is one complete R,G,B triple (of
\* the extractor's output, or the black fallback standing alone), primary is
\* colors[0], and with count = 0 the answer is the black fallback.
C20_ColorsAreBounded ==
  (BodyRan /\ IsDominantColors /\ Outcome.ok) =>
    LET v == Outcome.v
    IN  /\ Len(v.colors) >= 1
        /\ Len(v.colors) <= Max(1, RequestedCount)
        /\ \A k \in 1..Len(v.colors) :
             /\ IsEntryOf(v.colors[k], v.colors[k])
             /\ \/ \E j \in 1..CompleteTriples : IsEntryOf(v.colors[k], TripleAt(j))
                \/ IsBlackOnly(v)
        /\ v.primary = v.colors[1]
        /\ RequestedCount = 0 => IsBlackOnly(v)

\* C20's case: four bytes extracted and count = 2; the one complete triple
\* is the only entry and the fourth byte is dropped.
C20_Witness ==
  /\ pc = "done" /\ IsDominantColors /\ req.async /\ result.ok
  /\ req.in.color_bytes = <<171, 0, 171, 0>>
  /\ req.in.count = Some(2)
  /\ Len(result.v.colors) = 1
  /\ result.v.colors[1] =
       [r |-> 171, g |-> 0, b |-> 171, hex |-> <<"#", "A", "B", "0", "0", "A", "B">>]
  /\ result.v.primary = result.v.colors[1]

=============================================================================
